---- MODULE Spec2Model ----
(***************************************************************************)
(* Model of system/gd/security/facade.cc.  The file holds two units:       *)
(*   - the Java binder proxy android.bluetooth.BluetoothHapClient, whose   *)
(*     every operation reads the attached service, checks the adapter      *)
(*     state and the device, forwards one call to the remote               *)
(*     IBluetoothHapClient, awaits the result for at most the synchronous  *)
(*     timeout and returns a default value on failure;                     *)
(*   - the C++ SecurityModuleFacadeModule (gRPC facade wiring).            *)
(* One caller thread drives the proxy; the adapter, the profile connector  *)
(* and the remote service are the environment.                             *)
(***************************************************************************)
EXTENDS Integers, Sequences, FiniteSets, TLC

VARIABLES
  service,             \* mProfileConnector.getService(): NULL or the attached interface
  closed,              \* close() has run (mProfileConnector.disconnect())
  adapterState,        \* mAdapter.getState()
  mAttributionSource,  \* final field, set by the constructor
  pc,                  \* caller position: "idle", "awaiting" (in awaitResultNoInterrupt), "returned"
  cur,                 \* the invocation in progress / last finished, with the proxy state it observed
  defaultValue,        \* the local `defaultValue` of the running method
  remoteCalls,         \* calls made on IBluetoothHapClient by the current invocation
  elapsed,             \* time spent in awaitResultNoInterrupt
  outcome,             \* how the invocation ended
  reply,               \* what the remote service sent to the receiver
  ret,                 \* what the caller got
  \* SecurityModuleFacadeModule
  service_,            \* the member SecurityModuleFacadeService* service_
  heap,                \* the SecurityModuleFacadeService objects allocated by Start
  deps,                \* the started modules GetDependency<T>() hands out, by type
  handler,             \* the module's handler, GetHandler()
  moduleList,          \* the ModuleList filled by the last ListDependencies
  requested,           \* the types the last Start asked GetDependency for
  baseRunning,         \* GrpcFacadeModule::Start has run and GrpcFacadeModule::Stop has not
  running,             \* Start has run and Stop has not run since
  starts,              \* number of Start calls
  stops,               \* number of Stop calls
  got,                 \* what the last GetService call returned, and when
  crashed              \* the process was aborted by a detected heap fault

proxyVars == <<service, closed, adapterState, mAttributionSource, pc, cur, defaultValue,
               remoteCalls, elapsed, outcome, reply, ret>>

facadeVars == <<service_, heap, deps, handler, moduleList, requested, baseRunning,
                running, starts, stops, got, crashed>>

vars == <<proxyVars, facadeVars>>

----------------------------------------------------------------------------
(* Bounds *)

\* getSyncTimeout(), counted in clock ticks
SyncTimeout == 2

----------------------------------------------------------------------------
(* Constants of the program *)

NULL == "null"
IBluetoothHapClient == "IBluetoothHapClient"

\* BluetoothAdapter.STATE_ON, compared in isEnabled()
STATE_ON == 12
\* the other values BluetoothAdapter.getState() can deliver
STATE_OFF == 10
STATE_TURNING_ON == 11
STATE_TURNING_OFF == 13
AdapterStates == {STATE_OFF, STATE_TURNING_ON, STATE_ON, STATE_TURNING_OFF}

\* BluetoothProfile connection policies
CONNECTION_POLICY_FORBIDDEN == 0
CONNECTION_POLICY_ALLOWED == 100
CONNECTION_POLICY_UNKNOWN == -1

\* BluetoothProfile.STATE_DISCONNECTED
STATE_DISCONNECTED == 0

\* IBluetoothHapClient.GROUP_ID_UNAVAILABLE
HAP_GROUP_UNAVAILABLE == -1
\* IBluetoothHapClient.PRESET_INDEX_UNAVAILABLE
PRESET_INDEX_UNAVAILABLE == 0

----------------------------------------------------------------------------
(* Values: Java results of the three receiver types, null, and an          *)
(* exception leaving the method.  One record shape for all of them.        *)

BoolV(b) == [kind |-> "boolean", b |-> b, i |-> 0, l |-> <<>>]
IntV(i) == [kind |-> "int", b |-> FALSE, i |-> i, l |-> <<>>]
ListV(l) == [kind |-> "list", b |-> FALSE, i |-> 0, l |-> l]
NullV == [kind |-> "null", b |-> FALSE, i |-> 0, l |-> <<>>]
ThrownV == [kind |-> "exception", b |-> FALSE, i |-> 0, l |-> <<>>]

----------------------------------------------------------------------------
(* Devices.  A BluetoothDevice reference is null or an object with an      *)
(* address string, kept as a sequence of characters.                       *)

Device(address) == [isNull |-> FALSE, address |-> address]
NullDevice == [isNull |-> TRUE, address |-> <<>>]

ValidDevice ==
  Device(<<"0","0",":","1","1",":","2","2",":","A","A",":","B","B",":","C","C">>)
OtherDevice ==
  Device(<<"F","F",":","E","E",":","D","D",":","9","9",":","8","8",":","7","7">>)
\* lower-case hex digits
LowerDevice ==
  Device(<<"0","0",":","1","1",":","2","2",":","a","a",":","b","b",":","c","c">>)
\* five octets only
ShortDevice ==
  Device(<<"0","0",":","1","1",":","2","2",":","A","A",":","B","B">>)
\* '-' as the separator
DashDevice ==
  Device(<<"0","0","-","1","1","-","2","2","-","A","A","-","B","B","-","C","C">>)

HexUpper == {"0","1","2","3","4","5","6","7","8","9","A","B","C","D","E","F"}

\* BluetoothAdapter.checkBluetoothAddress(String): 17 characters, upper-case
\* hex digits at positions i % 3 \in {0, 1}, ':' at positions i % 3 = 2
checkBluetoothAddress(address) ==
  /\ Len(address) = 17
  /\ \A k \in 1..Len(address) :
       IF (k - 1) % 3 = 2 THEN address[k] = ":" ELSE address[k] \in HexUpper

----------------------------------------------------------------------------
(* Inputs of the operations *)

Devices == {NullDevice, ValidDevice, LowerDevice, ShortDevice, DashDevice}
Policies == {CONNECTION_POLICY_UNKNOWN, CONNECTION_POLICY_FORBIDDEN, CONNECTION_POLICY_ALLOWED}
GroupIds == {HAP_GROUP_UNAVAILABLE, 1}
PresetIndexes == {PRESET_INDEX_UNAVAILABLE, 1, 256}
Name30 == "123456789012345678901234567890"
Name31 == "1234567890123456789012345678901"
Names == {"", Name30, Name31}
StatesArgs == {<<>>, <<2>>}
AttributionSources == {"attributionA", "attributionB"}

\* argument record of an invocation or a remote call; a parameter the method
\* does not have keeps the value below
NoArgs == [device |-> NullDevice, connectionPolicy |-> 0, groupId |-> 0,
           presetIndex |-> 0, name |-> "", states |-> <<>>]

\* a call on the remote interface: method(params..., attribution, recv)
Call(method, params, args, attribution) ==
  [method |-> method, params |-> params, args |-> args, attribution |-> attribution]

\* an invocation of a proxy method by the caller, with the proxy state at entry
Invocation(op, params, args) ==
  [op |-> op, params |-> params, args |-> args,
   service |-> service, adapterState |-> adapterState]

NoInvocation ==
  [op |-> "none", params |-> <<>>, args |-> NoArgs,
   service |-> NULL, adapterState |-> STATE_ON]

----------------------------------------------------------------------------
(* Private helpers of BluetoothHapClient *)

\* variant: the attachment is not consulted
getService_always == IBluetoothHapClient

getService == service

\* variant: only STATE_OFF counts as disabled
isEnabled_notOff == IF adapterState = STATE_OFF THEN FALSE ELSE TRUE

isEnabled == IF adapterState = STATE_ON THEN TRUE ELSE FALSE

\* BluetoothAdapter.isEnabled(), used by setConnectionPolicy and getConnectionPolicy
mAdapter_isEnabled == adapterState = STATE_ON

\* variant: the address is not checked
isValidDevice_nullOnly(device) ==
  IF device.isNull THEN FALSE ELSE TRUE

isValidDevice(device) ==
  IF device.isNull THEN FALSE
  ELSE IF checkBluetoothAddress(device.address) THEN TRUE
  ELSE FALSE

\* SynchronousResultReceiver.Result.getValue(defaultValue)
getValue(v, default) == IF v.kind = "null" THEN default ELSE v

\* what a receiver of the type of `default` can be sent (SynchronousResultReceiver<T>
\* is declared with the type T of the method's defaultValue), null included
IntReplies == {-1, 0, 1, 2, 3, 100}
ListReplies == {<<>>, <<ValidDevice>>, <<ValidDevice, OtherDevice>>}
Replies(default) ==
  {NullV} \cup
  (CASE default.kind = "boolean" -> {BoolV(b) : b \in BOOLEAN}
     [] default.kind = "int" -> {IntV(i) : i \in IntReplies}
     [] default.kind = "list" -> {ListV(l) : l \in ListReplies}
     [] OTHER -> {})

----------------------------------------------------------------------------
(* The common shape of every operation *)

\* falls through to `return defaultValue` without entering the try block
ReturnDefault(inv, default, how) ==
  /\ cur' = inv
  /\ defaultValue' = default
  /\ remoteCalls' = <<>>
  /\ elapsed' = 0
  /\ reply' = NullV
  /\ pc' = "returned"
  /\ outcome' = how
  /\ ret' = default
  /\ UNCHANGED <<service, closed, adapterState, mAttributionSource>>
  /\ UNCHANGED facadeVars

\* variant: a RemoteException makes the proxy drop its service
Forward_detaches(inv, call, default) ==
  /\ cur' = inv
  /\ defaultValue' = default
  /\ remoteCalls' = <<call>>
  /\ elapsed' = 0
  /\ reply' = NullV
  /\ \/ /\ pc' = "awaiting"
        /\ outcome' = "pending"
        /\ ret' = NullV
        /\ service' = service
     \/ /\ pc' = "returned"
        /\ outcome' = "remote_exception"
        /\ ret' = default
        /\ service' = NULL
  /\ UNCHANGED <<closed, adapterState, mAttributionSource>>
  /\ UNCHANGED facadeVars

\* the try block up to the wait: service.<method>(..., mAttributionSource, recv);
\* the binder call either goes through, and the caller waits in
\* awaitResultNoInterrupt, or throws RemoteException, which the catch clause
\* logs before the method returns defaultValue
Forward(inv, call, default) ==
  /\ cur' = inv
  /\ defaultValue' = default
  /\ remoteCalls' = <<call>>
  /\ elapsed' = 0
  /\ reply' = NullV
  /\ \/ /\ pc' = "awaiting"
        /\ outcome' = "pending"
        /\ ret' = NullV
     \/ /\ pc' = "returned"
        /\ outcome' = "remote_exception"
        /\ ret' = default
  /\ UNCHANGED <<service, closed, adapterState, mAttributionSource>>
  /\ UNCHANGED facadeVars

\* time passes while the caller waits
Tick ==
  /\ pc = "awaiting"
  /\ elapsed < SyncTimeout
  /\ elapsed' = elapsed + 1
  /\ UNCHANGED <<service, closed, adapterState, mAttributionSource, pc, cur,
                 defaultValue, remoteCalls, outcome, reply, ret>>
  /\ UNCHANGED facadeVars

\* variant: the delivered value is dropped
Reply_dropsValue ==
  /\ pc = "awaiting"
  /\ \E v \in Replies(defaultValue) :
       /\ reply' = v
       /\ ret' = defaultValue
  /\ pc' = "returned"
  /\ outcome' = "replied"
  /\ UNCHANGED <<service, closed, adapterState, mAttributionSource, cur,
                 defaultValue, remoteCalls, elapsed>>
  /\ UNCHANGED facadeVars

\* the remote service sends v before the timeout:
\* return recv.awaitResultNoInterrupt(getSyncTimeout()).getValue(defaultValue)
Reply ==
  /\ pc = "awaiting"
  /\ \E v \in Replies(defaultValue) :
       /\ reply' = v
       /\ ret' = getValue(v, defaultValue)
  /\ pc' = "returned"
  /\ outcome' = "replied"
  /\ UNCHANGED <<service, closed, adapterState, mAttributionSource, cur,
                 defaultValue, remoteCalls, elapsed>>
  /\ UNCHANGED facadeVars

\* variant: the wait is started again after a TimeoutException
Timeout_waitsAgain ==
  /\ pc = "awaiting"
  /\ elapsed = SyncTimeout
  /\ elapsed' = 0
  /\ UNCHANGED <<service, closed, adapterState, mAttributionSource, pc, cur,
                 defaultValue, remoteCalls, outcome, reply, ret>>
  /\ UNCHANGED facadeVars

\* variant: the catch clause does not cover TimeoutException
Timeout_uncaught ==
  /\ pc = "awaiting"
  /\ elapsed = SyncTimeout
  /\ pc' = "returned"
  /\ outcome' = "timeout"
  /\ ret' = ThrownV
  /\ UNCHANGED <<service, closed, adapterState, mAttributionSource, cur,
                 defaultValue, remoteCalls, elapsed, reply>>
  /\ UNCHANGED facadeVars

\* awaitResultNoInterrupt throws TimeoutException once getSyncTimeout() has
\* passed; catch (RemoteException | TimeoutException e) logs it and the method
\* returns defaultValue
Timeout ==
  /\ pc = "awaiting"
  /\ elapsed = SyncTimeout
  /\ pc' = "returned"
  /\ outcome' = "timeout"
  /\ ret' = defaultValue
  /\ UNCHANGED <<service, closed, adapterState, mAttributionSource, cur,
                 defaultValue, remoteCalls, elapsed, reply>>
  /\ UNCHANGED facadeVars

----------------------------------------------------------------------------
(* The operations of BluetoothHapClient.  Each one: read getService(); when *)
(* it is null, log and return defaultValue; else when the method's checks   *)
(* pass, forward; else return defaultValue.                                 *)

setConnectionPolicy(device, connectionPolicy) ==
  LET args == [NoArgs EXCEPT !.device = device, !.connectionPolicy = connectionPolicy]
      inv == Invocation("setConnectionPolicy", <<"device", "connectionPolicy">>, args)
      default == BoolV(FALSE)
  IN  /\ pc # "awaiting"
      /\ IF getService = NULL
            THEN ReturnDefault(inv, default, "not_attached")
          ELSE IF mAdapter_isEnabled /\ isValidDevice(device)
             /\ (connectionPolicy = CONNECTION_POLICY_FORBIDDEN
                \/ connectionPolicy = CONNECTION_POLICY_ALLOWED)
            THEN Forward(inv,
                    Call("setConnectionPolicy", <<"device", "connectionPolicy">>,
                         [NoArgs EXCEPT !.device = device, !.connectionPolicy = connectionPolicy],
                         mAttributionSource),
                    default)
          ELSE ReturnDefault(inv, default, "rejected")

getConnectionPolicy(device) ==
  LET args == [NoArgs EXCEPT !.device = device]
      inv == Invocation("getConnectionPolicy", <<"device">>, args)
      default == IntV(CONNECTION_POLICY_FORBIDDEN)
  IN  /\ pc # "awaiting"
      /\ IF getService = NULL
            THEN ReturnDefault(inv, default, "not_attached")
          ELSE IF mAdapter_isEnabled /\ isValidDevice(device)
            THEN Forward(inv,
                    Call("getConnectionPolicy", <<"device">>,
                         [NoArgs EXCEPT !.device = device],
                         mAttributionSource),
                    default)
          ELSE ReturnDefault(inv, default, "rejected")

\* variant: defaultValue is null instead of a new ArrayList
getConnectedDevices_nullDefault ==
  LET args == NoArgs
      inv == Invocation("getConnectedDevices", <<>>, args)
      default == NullV
  IN  /\ pc # "awaiting"
      /\ IF getService = NULL
            THEN ReturnDefault(inv, default, "not_attached")
          ELSE IF isEnabled
            THEN Forward(inv,
                    Call("getConnectedDevices", <<>>,
                         NoArgs,
                         mAttributionSource),
                    default)
          ELSE ReturnDefault(inv, default, "rejected")

getConnectedDevices ==
  LET args == NoArgs
      inv == Invocation("getConnectedDevices", <<>>, args)
      default == ListV(<<>>)
  IN  /\ pc # "awaiting"
      /\ IF getService = NULL
            THEN ReturnDefault(inv, default, "not_attached")
          ELSE IF isEnabled
            THEN Forward(inv,
                    Call("getConnectedDevices", <<>>,
                         NoArgs,
                         mAttributionSource),
                    default)
          ELSE ReturnDefault(inv, default, "rejected")

getDevicesMatchingConnectionStates(states) ==
  LET args == [NoArgs EXCEPT !.states = states]
      inv == Invocation("getDevicesMatchingConnectionStates", <<"states">>, args)
      default == ListV(<<>>)
  IN  /\ pc # "awaiting"
      /\ IF getService = NULL
            THEN ReturnDefault(inv, default, "not_attached")
          ELSE IF isEnabled
            THEN Forward(inv,
                    Call("getDevicesMatchingConnectionStates", <<"states">>,
                         [NoArgs EXCEPT !.states = states],
                         mAttributionSource),
                    default)
          ELSE ReturnDefault(inv, default, "rejected")

getConnectionState(device) ==
  LET args == [NoArgs EXCEPT !.device = device]
      inv == Invocation("getConnectionState", <<"device">>, args)
      default == IntV(STATE_DISCONNECTED)
  IN  /\ pc # "awaiting"
      /\ IF getService = NULL
            THEN ReturnDefault(inv, default, "not_attached")
          ELSE IF isEnabled /\ isValidDevice(device)
            THEN Forward(inv,
                    Call("getConnectionState", <<"device">>,
                         [NoArgs EXCEPT !.device = device],
                         mAttributionSource),
                    default)
          ELSE ReturnDefault(inv, default, "rejected")

getHapGroup(device) ==
  LET args == [NoArgs EXCEPT !.device = device]
      inv == Invocation("getHapGroup", <<"device">>, args)
      default == IntV(HAP_GROUP_UNAVAILABLE)
  IN  /\ pc # "awaiting"
      /\ IF getService = NULL
            THEN ReturnDefault(inv, default, "not_attached")
          ELSE IF isEnabled /\ isValidDevice(device)
            THEN Forward(inv,
                    Call("getHapGroup", <<"device">>,
                         [NoArgs EXCEPT !.device = device],
                         mAttributionSource),
                    default)
          ELSE ReturnDefault(inv, default, "rejected")

getActivePresetIndex(device) ==
  LET args == [NoArgs EXCEPT !.device = device]
      inv == Invocation("getActivePresetIndex", <<"device">>, args)
      default == BoolV(FALSE)
  IN  /\ pc # "awaiting"
      /\ IF getService = NULL
            THEN ReturnDefault(inv, default, "not_attached")
          ELSE IF isEnabled /\ isValidDevice(device)
            THEN Forward(inv,
                    Call("getActivePresetIndex", <<"device">>,
                         [NoArgs EXCEPT !.device = device],
                         mAttributionSource),
                    default)
          ELSE ReturnDefault(inv, default, "rejected")

selectActivePreset(device, presetIndex) ==
  LET args == [NoArgs EXCEPT !.device = device, !.presetIndex = presetIndex]
      inv == Invocation("selectActivePreset", <<"device", "presetIndex">>, args)
      default == BoolV(FALSE)
  IN  /\ pc # "awaiting"
      /\ IF getService = NULL
            THEN ReturnDefault(inv, default, "not_attached")
          ELSE IF isEnabled /\ isValidDevice(device)
            THEN Forward(inv,
                    Call("selectActivePreset", <<"device", "presetIndex">>,
                         [NoArgs EXCEPT !.device = device, !.presetIndex = presetIndex],
                         mAttributionSource),
                    default)
          ELSE ReturnDefault(inv, default, "rejected")

groupSelectActivePreset(groupId, presetIndex) ==
  LET args == [NoArgs EXCEPT !.groupId = groupId, !.presetIndex = presetIndex]
      inv == Invocation("groupSelectActivePreset", <<"groupId", "presetIndex">>, args)
      default == BoolV(FALSE)
  IN  /\ pc # "awaiting"
      /\ IF getService = NULL
            THEN ReturnDefault(inv, default, "not_attached")
          ELSE IF isEnabled
            THEN Forward(inv,
                    Call("groupSelectActivePreset", <<"groupId", "presetIndex">>,
                         [NoArgs EXCEPT !.groupId = groupId, !.presetIndex = presetIndex],
                         mAttributionSource),
                    default)
          ELSE ReturnDefault(inv, default, "rejected")

nextActivePreset(device) ==
  LET args == [NoArgs EXCEPT !.device = device]
      inv == Invocation("nextActivePreset", <<"device">>, args)
      default == BoolV(FALSE)
  IN  /\ pc # "awaiting"
      /\ IF getService = NULL
            THEN ReturnDefault(inv, default, "not_attached")
          ELSE IF isEnabled /\ isValidDevice(device)
            THEN Forward(inv,
                    Call("nextActivePreset", <<"device">>,
                         [NoArgs EXCEPT !.device = device],
                         mAttributionSource),
                    default)
          ELSE ReturnDefault(inv, default, "rejected")

\* variant: the call goes to the neighbouring remote method
groupNextActivePreset_callsPrevious(groupId) ==
  LET args == [NoArgs EXCEPT !.groupId = groupId]
      inv == Invocation("groupNextActivePreset", <<"groupId">>, args)
      default == BoolV(FALSE)
  IN  /\ pc # "awaiting"
      /\ IF getService = NULL
            THEN ReturnDefault(inv, default, "not_attached")
          ELSE IF isEnabled
            THEN Forward(inv,
                    Call("groupPreviousActivePreset", <<"groupId">>,
                         [NoArgs EXCEPT !.groupId = groupId],
                         mAttributionSource),
                    default)
          ELSE ReturnDefault(inv, default, "rejected")

groupNextActivePreset(groupId) ==
  LET args == [NoArgs EXCEPT !.groupId = groupId]
      inv == Invocation("groupNextActivePreset", <<"groupId">>, args)
      default == BoolV(FALSE)
  IN  /\ pc # "awaiting"
      /\ IF getService = NULL
            THEN ReturnDefault(inv, default, "not_attached")
          ELSE IF isEnabled
            THEN Forward(inv,
                    Call("groupNextActivePreset", <<"groupId">>,
                         [NoArgs EXCEPT !.groupId = groupId],
                         mAttributionSource),
                    default)
          ELSE ReturnDefault(inv, default, "rejected")

previousActivePreset(device) ==
  LET args == [NoArgs EXCEPT !.device = device]
      inv == Invocation("previousActivePreset", <<"device">>, args)
      default == BoolV(FALSE)
  IN  /\ pc # "awaiting"
      /\ IF getService = NULL
            THEN ReturnDefault(inv, default, "not_attached")
          ELSE IF isEnabled /\ isValidDevice(device)
            THEN Forward(inv,
                    Call("previousActivePreset", <<"device">>,
                         [NoArgs EXCEPT !.device = device],
                         mAttributionSource),
                    default)
          ELSE ReturnDefault(inv, default, "rejected")

groupPreviousActivePreset(groupId) ==
  LET args == [NoArgs EXCEPT !.groupId = groupId]
      inv == Invocation("groupPreviousActivePreset", <<"groupId">>, args)
      default == BoolV(FALSE)
  IN  /\ pc # "awaiting"
      /\ IF getService = NULL
            THEN ReturnDefault(inv, default, "not_attached")
          ELSE IF isEnabled
            THEN Forward(inv,
                    Call("groupPreviousActivePreset", <<"groupId">>,
                         [NoArgs EXCEPT !.groupId = groupId],
                         mAttributionSource),
                    default)
          ELSE ReturnDefault(inv, default, "rejected")

\* variant: defaultValue is true
getPresetInfo_defaultTrue(device, presetIndex) ==
  LET args == [NoArgs EXCEPT !.device = device, !.presetIndex = presetIndex]
      inv == Invocation("getPresetInfo", <<"device", "presetIndex">>, args)
      default == BoolV(TRUE)
  IN  /\ pc # "awaiting"
      /\ IF getService = NULL
            THEN ReturnDefault(inv, default, "not_attached")
          ELSE IF isEnabled /\ isValidDevice(device)
            THEN Forward(inv,
                    Call("getPresetInfo", <<"device", "presetIndex">>,
                         [NoArgs EXCEPT !.device = device, !.presetIndex = presetIndex],
                         mAttributionSource),
                    default)
          ELSE ReturnDefault(inv, default, "rejected")

getPresetInfo(device, presetIndex) ==
  LET args == [NoArgs EXCEPT !.device = device, !.presetIndex = presetIndex]
      inv == Invocation("getPresetInfo", <<"device", "presetIndex">>, args)
      default == BoolV(FALSE)
  IN  /\ pc # "awaiting"
      /\ IF getService = NULL
            THEN ReturnDefault(inv, default, "not_attached")
          ELSE IF isEnabled /\ isValidDevice(device)
            THEN Forward(inv,
                    Call("getPresetInfo", <<"device", "presetIndex">>,
                         [NoArgs EXCEPT !.device = device, !.presetIndex = presetIndex],
                         mAttributionSource),
                    default)
          ELSE ReturnDefault(inv, default, "rejected")

getAllPresetsInfo(device) ==
  LET args == [NoArgs EXCEPT !.device = device]
      inv == Invocation("getAllPresetsInfo", <<"device">>, args)
      default == BoolV(FALSE)
  IN  /\ pc # "awaiting"
      /\ IF getService = NULL
            THEN ReturnDefault(inv, default, "not_attached")
          ELSE IF isEnabled /\ isValidDevice(device)
            THEN Forward(inv,
                    Call("getAllPresetsInfo", <<"device">>,
                         [NoArgs EXCEPT !.device = device],
                         mAttributionSource),
                    default)
          ELSE ReturnDefault(inv, default, "rejected")

getFeatures(device) ==
  LET args == [NoArgs EXCEPT !.device = device]
      inv == Invocation("getFeatures", <<"device">>, args)
      default == BoolV(FALSE)
  IN  /\ pc # "awaiting"
      /\ IF getService = NULL
            THEN ReturnDefault(inv, default, "not_attached")
          ELSE IF isEnabled /\ isValidDevice(device)
            THEN Forward(inv,
                    Call("getFeatures", <<"device">>,
                         [NoArgs EXCEPT !.device = device],
                         mAttributionSource),
                    default)
          ELSE ReturnDefault(inv, default, "rejected")

setPresetName(device, presetIndex, name) ==
  LET args == [NoArgs EXCEPT !.device = device, !.presetIndex = presetIndex, !.name = name]
      inv == Invocation("setPresetName", <<"device", "presetIndex", "name">>, args)
      default == BoolV(FALSE)
  IN  /\ pc # "awaiting"
      /\ IF getService = NULL
            THEN ReturnDefault(inv, default, "not_attached")
          ELSE IF isEnabled /\ isValidDevice(device)
            THEN Forward(inv,
                    Call("setPresetName", <<"device", "presetIndex", "name">>,
                         [NoArgs EXCEPT !.device = device, !.presetIndex = presetIndex, !.name = name],
                         mAttributionSource),
                    default)
          ELSE ReturnDefault(inv, default, "rejected")

\* variant: the unavailable group is refused by the proxy
groupSetPresetName_checksGroup(groupId, presetIndex, name) ==
  LET args == [NoArgs EXCEPT !.groupId = groupId, !.presetIndex = presetIndex, !.name = name]
      inv == Invocation("groupSetPresetName", <<"groupId", "presetIndex", "name">>, args)
      default == BoolV(FALSE)
  IN  /\ pc # "awaiting"
      /\ IF getService = NULL
            THEN ReturnDefault(inv, default, "not_attached")
          ELSE IF isEnabled /\ groupId # HAP_GROUP_UNAVAILABLE
            THEN Forward(inv,
                    Call("groupSetPresetName", <<"groupId", "presetIndex", "name">>,
                         [NoArgs EXCEPT !.groupId = groupId, !.presetIndex = presetIndex, !.name = name],
                         mAttributionSource),
                    default)
          ELSE ReturnDefault(inv, default, "rejected")

groupSetPresetName(groupId, presetIndex, name) ==
  LET args == [NoArgs EXCEPT !.groupId = groupId, !.presetIndex = presetIndex, !.name = name]
      inv == Invocation("groupSetPresetName", <<"groupId", "presetIndex", "name">>, args)
      default == BoolV(FALSE)
  IN  /\ pc # "awaiting"
      /\ IF getService = NULL
            THEN ReturnDefault(inv, default, "not_attached")
          ELSE IF isEnabled
            THEN Forward(inv,
                    Call("groupSetPresetName", <<"groupId", "presetIndex", "name">>,
                         [NoArgs EXCEPT !.groupId = groupId, !.presetIndex = presetIndex, !.name = name],
                         mAttributionSource),
                    default)
          ELSE ReturnDefault(inv, default, "rejected")

----------------------------------------------------------------------------
(* The proxy's life cycle and its environment *)

\* close(): mProfileConnector.disconnect() drops the service and unbinds
close ==
  /\ ~closed
  /\ closed' = TRUE
  /\ service' = NULL
  /\ UNCHANGED <<adapterState, mAttributionSource, pc, cur, defaultValue,
                 remoteCalls, elapsed, outcome, reply, ret>>
  /\ UNCHANGED facadeVars

\* the connector started by the constructor (mProfileConnector.connect) binds
\* the profile service: getServiceInterface(IBinder) wraps the binder
ServiceConnected ==
  /\ ~closed
  /\ service = NULL
  /\ service' = IBluetoothHapClient
  /\ UNCHANGED <<closed, adapterState, mAttributionSource, pc, cur, defaultValue,
                 remoteCalls, elapsed, outcome, reply, ret>>
  /\ UNCHANGED facadeVars

\* the profile service goes away
ServiceDisconnected ==
  /\ service # NULL
  /\ service' = NULL
  /\ UNCHANGED <<closed, adapterState, mAttributionSource, pc, cur, defaultValue,
                 remoteCalls, elapsed, outcome, reply, ret>>
  /\ UNCHANGED facadeVars

\* the adapter changes state behind the proxy
AdapterStateChange ==
  /\ \E s \in AdapterStates \ {adapterState} : adapterState' = s
  /\ UNCHANGED <<service, closed, mAttributionSource, pc, cur, defaultValue,
                 remoteCalls, elapsed, outcome, reply, ret>>
  /\ UNCHANGED facadeVars

----------------------------------------------------------------------------
(* SecurityModuleFacadeModule: the C++ facade wiring *)

\* how many times Start and Stop are called on the module
MaxStarts == 2
MaxStops == 2

\* pointers: nullptr, or the address of an object made by `new`
NullPtr == [kind |-> "null", id |-> 0]
Obj(id) == [kind |-> "obj", id |-> id]
ObjIds == 1..MaxStarts

\* the modules of the stack, by type, as two possible sets of instances
DepsA ==
  [SecurityModule |-> "security_module_1", L2capLeModule |-> "l2cap_le_module_1",
   L2capClassicModule |-> "l2cap_classic_module_1", HciLayer |-> "hci_layer_1"]
DepsB ==
  [SecurityModule |-> "security_module_2", L2capLeModule |-> "l2cap_le_module_2",
   L2capClassicModule |-> "l2cap_classic_module_2", HciLayer |-> "hci_layer_2"]
DependencyChoices == {DepsA, DepsB}
Handlers == {"handler_1", "handler_2"}

\* the lists the registry can hand to ListDependencies
ModuleLists == {<<>>, <<"StackManager">>}

\* Module::GetDependency<T>() and Module::GetHandler()
GetDependency(T) == deps[T]
GetHandler == handler

\* ModuleList::add<T>()
add(list, T) == Append(list, T)

\* GrpcFacadeModule::ListDependencies: list->add<GrpcModule>()
GrpcFacadeModule_ListDependencies(list) == add(list, "GrpcModule")

\* the constructor of SecurityModuleFacadeService: four of its five arguments
\* are kept in members, hci_layer is not
SecurityModuleFacadeService(security_module, l2cap_le_module, l2cap_classic_module, hci_layer, security_handler) ==
  [args |-> [security_module |-> security_module,
             l2cap_le_module |-> l2cap_le_module,
             l2cap_classic_module |-> l2cap_classic_module,
             hci_layer |-> hci_layer,
             security_handler |-> security_handler],
   security_module_ |-> security_module,
   l2cap_le_module_ |-> l2cap_le_module,
   l2cap_classic_module_ |-> l2cap_classic_module,
   security_handler_ |-> security_handler]

NoService == SecurityModuleFacadeService("", "", "", "", "")

\* a heap cell: the object, whether it is allocated, how often it was
\* deleted, which Start call made it and how many Stop calls preceded that
FreeCell == [state |-> "free", deletes |-> 0, madeBy |-> 0, madeAfter |-> 0,
             object |-> NoService]

NoResult == [called |-> FALSE, ptr |-> NullPtr, pointee |-> "none",
             running |-> FALSE, starts |-> 0, stops |-> 0]

\* variant: HciLayer is not declared
ListDependencies_withoutHci ==
  /\ ~crashed
  /\ \E list \in ModuleLists :
       moduleList' =
         add(add(add(GrpcFacadeModule_ListDependencies(list),
                     "SecurityModule"), "L2capLeModule"), "L2capClassicModule")
  /\ UNCHANGED <<service_, heap, deps, handler, requested, baseRunning, running,
                 starts, stops, got, crashed>>
  /\ UNCHANGED proxyVars

ListDependencies ==
  /\ ~crashed
  /\ \E list \in ModuleLists :
       moduleList' =
         add(add(add(add(GrpcFacadeModule_ListDependencies(list),
                         "SecurityModule"), "L2capLeModule"), "L2capClassicModule"),
             "HciLayer")
  /\ UNCHANGED <<service_, heap, deps, handler, requested, baseRunning, running,
                 starts, stops, got, crashed>>
  /\ UNCHANGED proxyVars

\* Start: the base class's Start, then service_ = new
\* SecurityModuleFacadeService(...); whatever service_ held is overwritten
Start ==
  /\ ~crashed
  /\ starts < MaxStarts
  /\ baseRunning' = TRUE
  /\ requested' = <<"SecurityModule", "L2capLeModule", "L2capClassicModule", "HciLayer">>
  /\ heap' = [heap EXCEPT ![starts + 1] =
                [state |-> "live", deletes |-> 0, madeBy |-> starts + 1,
                 madeAfter |-> stops,
                 object |-> SecurityModuleFacadeService(
                              GetDependency("SecurityModule"),
                              GetDependency("L2capLeModule"),
                              GetDependency("L2capClassicModule"),
                              GetDependency("HciLayer"), GetHandler)]]
  /\ service_' = Obj(starts + 1)
  /\ running' = TRUE
  /\ starts' = starts + 1
  /\ UNCHANGED <<deps, handler, moduleList, stops, got, crashed>>
  /\ UNCHANGED proxyVars

\* Stop: delete service_, then the base class's Stop; service_ keeps its
\* value.  Deleting nullptr does nothing.  Deleting an object a second time is
\* undefined: the allocator aborts the process, or the call goes on.
Stop ==
  /\ ~crashed
  /\ stops < MaxStops
  /\ stops' = stops + 1
  /\ IF service_ = NullPtr
       THEN /\ heap' = heap
            /\ crashed' = FALSE
       ELSE IF heap[service_.id].state = "live"
         THEN /\ heap' = [heap EXCEPT ![service_.id].state = "deleted",
                                      ![service_.id].deletes = 1]
              /\ crashed' = FALSE
       ELSE /\ heap' = [heap EXCEPT ![service_.id].deletes = @ + 1]
            /\ crashed' \in BOOLEAN
  /\ IF crashed'
       THEN UNCHANGED <<baseRunning, running>>
       ELSE /\ baseRunning' = FALSE
            /\ running' = FALSE
  /\ UNCHANGED <<service_, deps, handler, moduleList, requested, starts, got>>
  /\ UNCHANGED proxyVars

\* GetService() const: return service_
GetService ==
  /\ ~crashed
  /\ got' = [called |-> TRUE,
             ptr |-> service_,
             pointee |-> IF service_ = NullPtr THEN "none"
                         ELSE heap[service_.id].state,
             running |-> running,
             starts |-> starts,
             stops |-> stops]
  /\ UNCHANGED <<service_, heap, deps, handler, moduleList, requested, baseRunning,
                 running, starts, stops, crashed>>
  /\ UNCHANGED proxyVars

\* SecurityModuleFacadeModule::Factory: new SecurityModuleFacadeModule(), the
\* members value-initialized, given its dependencies and handler by the registry
FacadeNew(d, h) ==
  /\ service_ = NullPtr
  /\ heap = [o \in ObjIds |-> FreeCell]
  /\ deps = d
  /\ handler = h
  /\ moduleList = <<>>
  /\ requested = <<>>
  /\ baseRunning = FALSE
  /\ running = FALSE
  /\ starts = 0
  /\ stops = 0
  /\ got = NoResult
  /\ crashed = FALSE

----------------------------------------------------------------------------

\* the state the BluetoothHapClient constructor leaves: adapter and
\* attribution source taken from the default adapter, the connector started
\* but not yet bound
HapClientNew(state, source) ==
  /\ service = NULL
  /\ closed = FALSE
  /\ adapterState = state
  /\ mAttributionSource = source
  /\ pc = "idle"
  /\ cur = NoInvocation
  /\ defaultValue = NullV
  /\ remoteCalls = <<>>
  /\ elapsed = 0
  /\ outcome = "none"
  /\ reply = NullV
  /\ ret = NullV

\* the proxy at work, the facade module constructed and left alone
Init ==
  /\ \E state \in AdapterStates, source \in AttributionSources :
       HapClientNew(state, source)
  /\ FacadeNew(DepsA, "handler_1")

\* the facade module at work, the proxy constructed and left alone
FacadeInit ==
  /\ HapClientNew(STATE_OFF, "attributionA")
  /\ \E d \in DependencyChoices, h \in Handlers : FacadeNew(d, h)

FacadeNext ==
  \/ ListDependencies
  \/ Start
  \/ Stop
  \/ GetService

FacadeSpec == FacadeInit /\ [][FacadeNext]_vars

Next ==
  \/ \E device \in Devices, connectionPolicy \in Policies :
       setConnectionPolicy(device, connectionPolicy)
  \/ \E device \in Devices : getConnectionPolicy(device)
  \/ getConnectedDevices
  \/ \E states \in StatesArgs : getDevicesMatchingConnectionStates(states)
  \/ \E device \in Devices : getConnectionState(device)
  \/ \E device \in Devices : getHapGroup(device)
  \/ \E device \in Devices : getActivePresetIndex(device)
  \/ \E device \in Devices, presetIndex \in PresetIndexes :
       selectActivePreset(device, presetIndex)
  \/ \E groupId \in GroupIds, presetIndex \in PresetIndexes :
       groupSelectActivePreset(groupId, presetIndex)
  \/ \E device \in Devices : nextActivePreset(device)
  \/ \E groupId \in GroupIds : groupNextActivePreset(groupId)
  \/ \E device \in Devices : previousActivePreset(device)
  \/ \E groupId \in GroupIds : groupPreviousActivePreset(groupId)
  \/ \E device \in Devices, presetIndex \in PresetIndexes :
       getPresetInfo(device, presetIndex)
  \/ \E device \in Devices : getAllPresetsInfo(device)
  \/ \E device \in Devices : getFeatures(device)
  \/ \E device \in Devices, presetIndex \in PresetIndexes, name \in Names :
       setPresetName(device, presetIndex, name)
  \/ \E groupId \in GroupIds, presetIndex \in PresetIndexes, name \in Names :
       groupSetPresetName(groupId, presetIndex, name)
  \/ Tick
  \/ Reply
  \/ Timeout
  \/ close
  \/ ServiceConnected
  \/ ServiceDisconnected
  \/ AdapterStateChange

Spec == Init /\ [][Next]_vars

\* the clock advances and the timeout fires; nothing obliges the remote
\* service to answer
LiveSpec == Spec /\ WF_vars(Tick) /\ WF_vars(Timeout)

TypeOK ==
  /\ service \in {NULL, IBluetoothHapClient}
  /\ closed \in BOOLEAN
  /\ adapterState \in AdapterStates
  /\ mAttributionSource \in AttributionSources
  /\ pc \in {"idle", "awaiting", "returned"}
  /\ elapsed \in 0..SyncTimeout
  /\ Len(remoteCalls) \in 0..2
  /\ outcome \in {"none", "not_attached", "rejected", "remote_exception",
                  "pending", "replied", "timeout"}

----------------------------------------------------------------------------
(* Properties *)

AllOps ==
  {"setConnectionPolicy", "getConnectionPolicy", "getConnectedDevices",
   "getDevicesMatchingConnectionStates", "getConnectionState", "getHapGroup",
   "getActivePresetIndex", "selectActivePreset", "groupSelectActivePreset",
   "nextActivePreset", "groupNextActivePreset", "previousActivePreset",
   "groupPreviousActivePreset", "getPresetInfo", "getAllPresetsInfo",
   "getFeatures", "setPresetName", "groupSetPresetName"}

\* the operations that take a BluetoothDevice
DeviceOps ==
  {"setConnectionPolicy", "getConnectionPolicy", "getConnectionState",
   "getHapGroup", "getActivePresetIndex", "selectActivePreset",
   "nextActivePreset", "previousActivePreset", "getPresetInfo",
   "getAllPresetsInfo", "getFeatures", "setPresetName"}

\* the default value each operation is documented to fall back to
DocumentedDefault(op) ==
  CASE op = "getConnectionPolicy" -> IntV(CONNECTION_POLICY_FORBIDDEN)
    [] op = "getConnectionState" -> IntV(STATE_DISCONNECTED)
    [] op = "getHapGroup" -> IntV(HAP_GROUP_UNAVAILABLE)
    [] op \in {"getConnectedDevices", "getDevicesMatchingConnectionStates"} -> ListV(<<>>)
    [] OTHER -> BoolV(FALSE)

Returned == pc = "returned" /\ cur.op \in AllOps
Started == pc # "idle" /\ cur.op \in AllOps
Forwarded == remoteCalls # <<>>

\* C1: an operation whose forwarded call raised RemoteException, or whose wait
\* for the result timed out, returns its default value (false, FORBIDDEN,
\* DISCONNECTED, HAP_GROUP_UNAVAILABLE or the empty list) and no exception
\* reaches the caller.
C1_DefaultOnRemoteExceptionOrTimeout ==
  (Returned /\ outcome \in {"remote_exception", "timeout"})
    => (ret = DocumentedDefault(cur.op) /\ ret.kind # "exception")

C1_Witness ==
  /\ Returned
  /\ outcome = "timeout"
  /\ cur.op = "getHapGroup"
  /\ Forwarded
  /\ ret = IntV(HAP_GROUP_UNAVAILABLE)

\* C2: an operation entered while the proxy is not attached (getService() is
\* null) returns its default value and calls nothing on the remote interface,
\* whatever the adapter state and the arguments.
C2_NotAttachedReturnsDefault ==
  (Started /\ cur.service = NULL)
    => (pc = "returned" /\ ~Forwarded /\ ret = DocumentedDefault(cur.op))

C2_Witness ==
  /\ Returned
  /\ cur.service = NULL
  /\ cur.adapterState = STATE_ON
  /\ cur.op = "getConnectionState"
  /\ cur.args.device = ValidDevice
  /\ ret = IntV(STATE_DISCONNECTED)

\* C3: an operation entered while the adapter state is not STATE_ON forwards
\* nothing to the remote service and returns its default value.
C3_AdapterOffForwardsNothing ==
  (Started /\ cur.adapterState # STATE_ON)
    => (pc = "returned" /\ ~Forwarded /\ ret = DocumentedDefault(cur.op))

C3_Witness ==
  /\ Returned
  /\ cur.service = IBluetoothHapClient
  /\ cur.adapterState = STATE_TURNING_OFF
  /\ cur.op = "groupSelectActivePreset"
  /\ outcome = "rejected"
  /\ ret = BoolV(FALSE)

\* C4: a device operation forwards only a non-null device whose address passes
\* checkBluetoothAddress; entered with a null or invalid-address device it
\* returns its default value and forwards nothing.
C4_InvalidDeviceForwardsNothing ==
  (Started /\ cur.op \in DeviceOps)
    => /\ Forwarded =>
            (~cur.args.device.isNull /\ checkBluetoothAddress(cur.args.device.address))
       /\ (cur.args.device.isNull \/ ~checkBluetoothAddress(cur.args.device.address))
            => (pc = "returned" /\ ~Forwarded /\ ret = DocumentedDefault(cur.op))

C4_Witness ==
  /\ Returned
  /\ cur.service = IBluetoothHapClient
  /\ cur.adapterState = STATE_ON
  /\ cur.op = "selectActivePreset"
  /\ cur.args.device = LowerDevice
  /\ outcome = "rejected"
  /\ ret = BoolV(FALSE)

\* C5: setConnectionPolicy accepts each of CONNECTION_POLICY_ALLOWED,
\* CONNECTION_POLICY_FORBIDDEN and CONNECTION_POLICY_UNKNOWN for a valid
\* device (with the service attached and the adapter on, the policy is handed
\* to the service), and returns true when the service reports the policy set.
C5_AcceptsEveryDocumentedPolicy ==
  (Started /\ cur.op = "setConnectionPolicy"
     /\ cur.service = IBluetoothHapClient /\ cur.adapterState = STATE_ON
     /\ ~cur.args.device.isNull /\ checkBluetoothAddress(cur.args.device.address)
     /\ cur.args.connectionPolicy \in
          {CONNECTION_POLICY_ALLOWED, CONNECTION_POLICY_FORBIDDEN,
           CONNECTION_POLICY_UNKNOWN})
    => /\ Forwarded
       /\ (pc = "returned" /\ outcome = "replied" /\ reply = BoolV(TRUE))
            => ret = BoolV(TRUE)

\* C6: when the call was forwarded and the remote service delivered a value
\* before the timeout, the operation returns exactly that value.
C6_ReturnsDeliveredValue ==
  (Returned /\ outcome = "replied" /\ reply.kind # "null")
    => (Forwarded /\ ret = reply)

C6_Witness ==
  /\ Returned
  /\ cur.op = "getConnectionPolicy"
  /\ outcome = "replied"
  /\ reply = IntV(CONNECTION_POLICY_ALLOWED)
  /\ ret = IntV(CONNECTION_POLICY_ALLOWED)

\* C7: an invocation makes at most one call on the remote service, also after
\* a RemoteException or a timeout, and the call it makes is the remote method
\* of the operation's name with the caller's arguments and the proxy's
\* attribution source.
C7_AtMostOneCallSameMethodSameArgs ==
  Started
    => /\ Len(remoteCalls) <= 1
       /\ Forwarded =>
            remoteCalls[1] = Call(cur.op, cur.params, cur.args, mAttributionSource)

C7_Witness ==
  /\ Returned
  /\ cur.op = "setPresetName"
  /\ cur.args.device = ValidDevice
  /\ cur.args.presetIndex = 1
  /\ cur.args.name = Name30
  /\ outcome = "timeout"
  /\ Len(remoteCalls) = 1
  /\ remoteCalls[1].method = "setPresetName"
  /\ remoteCalls[1].args.name = Name30

\* C8: an operation waiting for its result eventually returns to the caller,
\* also when the remote service never answers: after the synchronous timeout
\* the default value is returned.
C8_EventuallyReturns == (pc = "awaiting") ~> (pc = "returned")

C8_Witness ==
  /\ Returned
  /\ cur.op = "nextActivePreset"
  /\ outcome = "timeout"
  /\ elapsed = SyncTimeout
  /\ reply = NullV
  /\ ret = BoolV(FALSE)

\* C9: getActivePresetIndex returns a preset index, and the index is
\* PRESET_INDEX_UNAVAILABLE when the device is not connected (as when the
\* proxy is not attached or the call fails).
C9_ReturnsPresetIndex ==
  (Returned /\ cur.op = "getActivePresetIndex")
    => /\ ret.kind = "int"
       /\ outcome # "replied" => ret = IntV(PRESET_INDEX_UNAVAILABLE)

\* the operations documented "true if valid request was sent, false otherwise"
RequestOps ==
  {"selectActivePreset", "groupSelectActivePreset", "nextActivePreset",
   "groupNextActivePreset", "previousActivePreset", "groupPreviousActivePreset",
   "getPresetInfo", "setPresetName", "groupSetPresetName"}

MaxPresetNameLength == 30

NameOps == {"setPresetName", "groupSetPresetName"}

\* C11: setPresetName and groupSetPresetName return true only if a valid
\* request, with a name of at most 30 characters, was sent.
C11_TrueOnlyForNameWithinLimit ==
  (Returned /\ cur.op \in NameOps /\ ret = BoolV(TRUE))
    => (Forwarded /\ Len(cur.args.name) <= MaxPresetNameLength)

ListOps == {"getConnectedDevices", "getDevicesMatchingConnectionStates"}

\* C12: getConnectedDevices and getDevicesMatchingConnectionStates always hand
\* the caller a list, never null, and the list is empty unless the remote
\* service delivered one.
C12_ListNeverNull ==
  (Returned /\ cur.op \in ListOps)
    => /\ ret.kind = "list"
       /\ ret # ListV(<<>>) => (outcome = "replied" /\ reply = ret)

C12_Witness ==
  /\ Returned
  /\ cur.op = "getConnectedDevices"
  /\ outcome = "replied"
  /\ reply = NullV
  /\ ret = ListV(<<>>)

GroupOps ==
  {"groupSelectActivePreset", "groupNextActivePreset",
   "groupPreviousActivePreset", "groupSetPresetName"}

\* the operations that take a presetIndex
PresetOps ==
  {"selectActivePreset", "groupSelectActivePreset", "getPresetInfo",
   "setPresetName", "groupSetPresetName"}

\* C17: with the service attached and the adapter on, a group operation is
\* forwarded whatever its groupId is (HAP_GROUP_UNAVAILABLE included), and a
\* preset operation (on a valid device, when it takes one) is forwarded
\* whatever its presetIndex is (PRESET_INDEX_UNAVAILABLE and values outside
\* 0..255 included); the identifiers reach the service unchanged.
C17_AnyGroupIdAndPresetIndexForwarded ==
  (Started /\ cur.op \in (GroupOps \cup PresetOps)
     /\ cur.service = IBluetoothHapClient /\ cur.adapterState = STATE_ON
     /\ (cur.op \in DeviceOps =>
           (~cur.args.device.isNull /\ checkBluetoothAddress(cur.args.device.address))))
    => /\ Forwarded
       /\ remoteCalls[1].args.groupId = cur.args.groupId
       /\ remoteCalls[1].args.presetIndex = cur.args.presetIndex

C17_Witness ==
  /\ Started
  /\ cur.op = "groupSetPresetName"
  /\ cur.args.groupId = HAP_GROUP_UNAVAILABLE
  /\ cur.args.presetIndex = 256
  /\ Forwarded
  /\ remoteCalls[1].args.groupId = HAP_GROUP_UNAVAILABLE
  /\ remoteCalls[1].args.presetIndex = 256

\* the variables an invocation writes; a step that changes one of them is a
\* step of a query or command operation
callVars == <<pc, cur, defaultValue, remoteCalls, elapsed, outcome, reply, ret>>

\* C18: no step of a query or command operation, whatever its outcome,
\* changes the proxy's service attachment or its attribution source (the
\* adapter reference is a final field); of the proxy's methods only close()
\* changes the attachment, detaching it.
C18_OperationsLeaveProxyStateAlone ==
  [][/\ callVars' # callVars
          => UNCHANGED <<service, closed, mAttributionSource>>
     /\ closed' # closed => (closed' /\ service' = NULL /\ UNCHANGED callVars)
     /\ mAttributionSource' = mAttributionSource]_vars

C18_Witness ==
  /\ Returned
  /\ cur.op = "getAllPresetsInfo"
  /\ outcome = "remote_exception"
  /\ cur.service = IBluetoothHapClient
  /\ service = IBluetoothHapClient
  /\ ~closed

\* C13: a GetService call made between a Start and the following Stop
\* returns a non-null pointer to a live object built from the module's
\* SecurityModule, L2capLeModule, L2capClassicModule, HciLayer and handler,
\* and that object is the single one made since the Stop before: every call
\* in the interval returns the same pointer.
C13_GetServiceReturnsTheSingleStartedService ==
  (got.called /\ got.running) =>
    /\ got.ptr.kind = "obj"
    /\ got.pointee = "live"
    /\ heap[got.ptr.id].object.args =
         [security_module |-> deps.SecurityModule,
          l2cap_le_module |-> deps.L2capLeModule,
          l2cap_classic_module |-> deps.L2capClassicModule,
          hci_layer |-> deps.HciLayer,
          security_handler |-> handler]
    /\ \A o \in ObjIds :
         (heap[o].state # "free" /\ heap[o].madeAfter = got.stops)
           => Obj(o) = got.ptr

Range(seq) == {seq[i] : i \in 1..Len(seq)}

\* C14: every module type Start asks GetDependency for is in the list
\* ListDependencies fills, at a position after the dependencies of the base
\* GrpcFacadeModule.
C14_StartRequestsOnlyDeclaredDependencies ==
  (requested # <<>> /\ moduleList # <<>>) =>
    \A r \in 1..Len(requested) :
      \E i \in 1..Len(moduleList) :
        /\ moduleList[i] = requested[r]
        /\ \A j \in 1..Len(moduleList) :
             moduleList[j] \in Range(GrpcFacadeModule_ListDependencies(<<>>)) => j < i

C14_Witness ==
  /\ running
  /\ requested = <<"SecurityModule", "L2capLeModule", "L2capClassicModule", "HciLayer">>
  /\ moduleList = <<"StackManager", "GrpcModule", "SecurityModule", "L2capLeModule",
                    "L2capClassicModule", "HciLayer">>

\* C15: GetService never returns a pointer to a SecurityModuleFacadeService
\* that Stop has deleted.
C15_GetServiceNeverReturnsDeletedService ==
  got.called => got.pointee # "deleted"

\* C16: whatever the sequence of Start and Stop calls, no object made by Start
\* is deleted twice and none is lost while alive (every live object is the
\* one service_ points to, so the next Stop deletes it).
C16_EveryServiceDeletedExactlyOnce ==
  \A o \in ObjIds :
    /\ heap[o].deletes <= 1
    /\ heap[o].state = "live" => service_ = Obj(o)

====
